---- MODULE Spec2Model ----
(***************************************************************************)
(* State-machine model of the PDF-to-image converter component             *)
(* (src/App.tsx): the React state of PDFToImageConverter, its event         *)
(* handlers, and the asynchronous continuations of processFile and of the   *)
(* three export handlers.                                                   *)
(*                                                                          *)
(* Texts are sequences of one-character strings.  Scales are counted in     *)
(* halves (renderScale 1.5 is 3) and qualities in hundredths (0.75 is 75).  *)
(***************************************************************************)
EXTENDS Integers, Sequences, FiniteSets, TLC

VARIABLES
  pdfFile,            \* useState<File | null>            App.tsx:25
  images,             \* useState<ProcessedImage[]>       App.tsx:26
  isProcessing,       \*                                  App.tsx:27
  progress,           \* {current, total}                 App.tsx:28
  outputFormat,       \* 'IMAGE' | 'PDF'                  App.tsx:29
  errorMsg,           \*                                  App.tsx:30
  sourcePassword,     \*                                  App.tsx:33
  outputPassword,     \*                                  App.tsx:34
  showPasswordPrompt, \*                                  App.tsx:35
  isPasswordError,    \*                                  App.tsx:36
  isUnlocked,         \*                                  App.tsx:37
  renderScale,        \*                                  App.tsx:40
  imgQuality,         \*                                  App.tsx:41
  showExportSettings, \*                                  App.tsx:42
  pageRangeInput,     \*                                  App.tsx:45
  selectedIds,        \*                                  App.tsx:46
  isExporting,        \*                                  App.tsx:49
  exportType,         \*                                  App.tsx:50
  tasks,              \* the processFile invocations, one record per slot
  jobs,               \* the export invocations, one record per slot
  downloads,          \* artifacts handed to the browser's save mechanism
  lastOp              \* observer: the event handler invoked last, kept by
                      \* the specifications whose claims speak of it

vars == << pdfFile, images, isProcessing, progress, outputFormat, errorMsg,
           sourcePassword, outputPassword, showPasswordPrompt,
           isPasswordError, isUnlocked, renderScale, imgQuality,
           showExportSettings, pageRangeInput, selectedIds, isExporting,
           exportType, tasks, jobs, downloads, lastOp >>

\* The React state proper: everything but the bookkeeping of what is in flight.
uiVars == << pdfFile, images, isProcessing, progress, outputFormat, errorMsg,
             sourcePassword, outputPassword, showPasswordPrompt,
             isPasswordError, isUnlocked, renderScale, imgQuality,
             showExportSettings, pageRangeInput, selectedIds, isExporting,
             exportType >>

(***************************************************************************)
(* Bounds                                                                   *)
(***************************************************************************)
MaxLen == 4          \* longest page-range text typed
MaxRangeTotal == 6   \* largest page count under the range-parsing specification
MaxPages == 2        \* pages of the longest document loaded
MaxTasks == 2        \* processFile invocations in flight at once
MaxJobs == 2         \* export invocations in flight at once
MaxDownloads == 2    \* export requests followed in one behaviour
MaxEstimatePages == 3  \* pages of the document under the estimate specification
MaxExportPages == 2  \* pages of the document under the export specification

NoError == "null"

\* useState(1.5) and useState(0.75)
DefaultScale == 3
DefaultQuality == 75

(***************************************************************************)
(* Text helpers: String.prototype.trim / split and parseInt                 *)
(***************************************************************************)
FullWidthComma == "fw,"
Digits == {"0", "1", "2", "3", "4", "5", "6", "7", "8", "9"}
WhiteSpace == {" "}

DigitVal(c) ==
  CASE c = "0" -> 0 [] c = "1" -> 1 [] c = "2" -> 2 [] c = "3" -> 3
    [] c = "4" -> 4 [] c = "5" -> 5 [] c = "6" -> 6 [] c = "7" -> 7
    [] c = "8" -> 8 [] c = "9" -> 9

RECURSIVE TrimStart(_)
TrimStart(s) ==
  IF s # << >> /\ Head(s) \in WhiteSpace THEN TrimStart(Tail(s)) ELSE s

RECURSIVE TrimEnd(_)
TrimEnd(s) ==
  IF s # << >> /\ s[Len(s)] \in WhiteSpace
    THEN TrimEnd(SubSeq(s, 1, Len(s) - 1))
    ELSE s

Trim(s) == TrimEnd(TrimStart(s))

\* s.split(sep): the pieces between separators; always at least one piece.
RECURSIVE Split(_, _)
Split(s, seps) ==
  IF \A k \in 1..Len(s) : s[k] \notin seps
    THEN << s >>
    ELSE LET k == CHOOSE k \in 1..Len(s) :
                    /\ s[k] \in seps
                    /\ \A j \in 1..(k - 1) : s[j] \notin seps
         IN  << SubSeq(s, 1, k - 1) >> \o Split(SubSeq(s, k + 1, Len(s)), seps)

\* The longest prefix of decimal digits.
RECURSIVE DigitPrefix(_)
DigitPrefix(s) ==
  IF s # << >> /\ Head(s) \in Digits
    THEN << Head(s) >> \o DigitPrefix(Tail(s))
    ELSE << >>

RECURSIVE DecimalValue(_, _)
DecimalValue(s, acc) ==
  IF s = << >> THEN acc ELSE DecimalValue(Tail(s), 10 * acc + DigitVal(Head(s)))

\* parseInt(s): leading white space is skipped, then the longest run of
\* digits is read and anything after it is ignored; no digit gives NaN.
\* (A sign never reaches parseInt here: the text was split on '-'.)
\* The result is << n >> for the number n and << >> for NaN.
NaN == << >>
ParseInt(s) ==
  LET d == DigitPrefix(TrimStart(s))
  IN  IF d = << >> THEN NaN ELSE << DecimalValue(d, 0) >>
IsNaN(v) == Len(v) = 0
Num(v) == v[1]

Min(a, b) == IF a <= b THEN a ELSE b
Max(a, b) == IF a >= b THEN a ELSE b

(***************************************************************************)
(* Documents and rendered pages                                             *)
(***************************************************************************)
\* A File: its name, the page count pdf.js reports once it opens, the
\* password protecting it ("" when it has none) and whether its bytes decode.
MakeFile(name, n, lock, broken) ==
  [name |-> name, numPages |-> n, lock |-> lock, corrupt |-> broken]

\* pdfFile = null
NoFile == MakeFile("null", 0, "", FALSE)

\* page.getViewport({scale}): the page's own size times the scale.
BaseWidth(i) == IF i % 2 = 0 THEN 4 ELSE 2
BaseHeight(i) == 3
ViewportWidth(i, scale) == BaseWidth(i) * scale
ViewportHeight(i, scale) == BaseHeight(i) * scale

\* canvas.toDataURL('image/jpeg', q): the text grows with the pixel count
\* and the quality; 23 characters of "data:image/jpeg;base64," precede it.
DataUrlLength(i, scale, quality) ==
  23 + (ViewportWidth(i, scale) * ViewportHeight(i, scale) * quality) \div 25

\* sizeInBytes = Math.floor((imgData.length - 22) * 0.75)
SizeInBytes(len) == ((len - 22) * 3) \div 4

\* imgObj: the data URL is identified by what was rendered to produce it.
MakeImage(file, i, scale, quality) ==
  [ id     |-> i,
    data   |-> << file.name, i, scale, quality >>,
    width  |-> ViewportWidth(i, scale),
    height |-> ViewportHeight(i, scale),
    size   |-> SizeInBytes(DataUrlLength(i, scale, quality)) ]

ImageIds(imgs) == { imgs[k].id : k \in 1..Len(imgs) }

(***************************************************************************)
(* parseAndApplyRange                                                       *)
(***************************************************************************)
\* Mutant: the two numbers are used in the order written.
RangeSpanUnordered(start, end) == start..end

\* for (let i = s; i <= e; i++) newSelected.add(i), s and e the lower and
\* the higher of the two numbers.
RangeSpan(start, end) == Min(start, end)..Max(start, end)

\* One element of input.split(/[,，]/) and the ids it adds.
PartIds(p) ==
  LET range == Split(Trim(p), {"-"})
  IN  IF Len(range) = 1
        THEN LET val == ParseInt(range[1])
             IN  IF ~IsNaN(val) THEN {Num(val)} ELSE {}
        ELSE IF Len(range) = 2
          THEN LET start == ParseInt(range[1])
                   end == ParseInt(range[2])
               IN  IF ~IsNaN(start) /\ ~IsNaN(end)
                     THEN RangeSpan(Num(start), Num(end))
                     ELSE {}
          ELSE {}

NewSelected(input) ==
  LET parts == Split(input, {",", FullWidthComma})
  IN  UNION { PartIds(parts[k]) : k \in 1..Len(parts) }

\* Mutant: the upper limit is not applied.
ValidSelectionNoUpper(newSelected, total) ==
  { id \in newSelected : id >= 1 }

\* if (id >= 1 && id <= progress.total) validSelection.add(id)
ValidSelection(newSelected, total) ==
  { id \in newSelected : id >= 1 /\ id <= total }

\* Mutant: the valid set is stored even when it is empty.
ApplyValidSelectionAlways(validSelection, current) == validSelection

\* Mutant: the valid set is added to the selection instead of replacing it.
ApplyValidSelectionUnion(validSelection, current) ==
  validSelection \cup current

\* if (validSelection.size > 0) setSelectedIds(validSelection)
ApplyValidSelection(validSelection, current) ==
  IF Cardinality(validSelection) > 0 THEN validSelection ELSE current

\* The selection after parseAndApplyRange on `text`.
RangeResult(text, total, current) ==
  LET input == Trim(text)
  IN  IF input = << >>
        THEN current
        ELSE ApplyValidSelection(ValidSelection(NewSelected(input), total), current)

\* <input onChange={e => setPageRangeInput(e.target.value)}>, shown once a
\* file is chosen.
SetPageRangeInput(value) ==
  /\ pdfFile # NoFile
  /\ pageRangeInput' = value
  /\ UNCHANGED << pdfFile, images, isProcessing, progress, outputFormat,
                  errorMsg, sourcePassword, outputPassword,
                  showPasswordPrompt, isPasswordError, isUnlocked,
                  renderScale, imgQuality, showExportSettings, selectedIds,
                  isExporting, exportType, tasks, jobs, downloads >>

\* onKeyDown Enter in the range input.
ParseAndApplyRange ==
  /\ pdfFile # NoFile
  /\ selectedIds' = RangeResult(pageRangeInput, progress.total, selectedIds)
  /\ UNCHANGED << pdfFile, images, isProcessing, progress, outputFormat,
                  errorMsg, sourcePassword, outputPassword,
                  showPasswordPrompt, isPasswordError, isUnlocked,
                  renderScale, imgQuality, showExportSettings,
                  pageRangeInput, isExporting, exportType, tasks, jobs,
                  downloads >>

(***************************************************************************)
(* processFile: one record per invocation in flight.  A record holds the    *)
(* arguments, the values the closure captured when the handler was called   *)
(* (sourcePassword, renderScale, imgQuality), the locals totalPages, i and  *)
(* newImagesList, and pc, the await the invocation is suspended at:         *)
(*   "timer"   await new Promise(r => setTimeout(r, 100))      line 115     *)
(*   "open"    await file.arrayBuffer(), loadingTask.promise   lines 119-127*)
(*   "page"    await pdf.getPage(i), page.render(...).promise  lines 138-149*)
(***************************************************************************)
IdleTask ==
  [ pc |-> "idle", file |-> NoFile, isReParsing |-> FALSE, password |-> "",
    scale |-> 0, quality |-> 0, totalPages |-> 0, i |-> 0,
    newImagesList |-> << >> ]

TaskIds == DOMAIN tasks
InFlight(t) == tasks[t].pc # "idle"
FreeSlot(t) == /\ ~InFlight(t)
               /\ \A u \in TaskIds : u < t => InFlight(u)

\* customPassword || sourcePassword
\* Mutant: only the password passed as an argument is used.
PasswordUsedCustomOnly(customPassword, source) == customPassword

PasswordUsed(customPassword, source) ==
  IF customPassword # "" THEN customPassword ELSE source

\* Lines 108-115: the part of processFile that runs inside the event handler.
ProcessFile(t, file, isReParsing, customPassword) ==
  /\ FreeSlot(t)
  /\ isProcessing' = TRUE
  /\ errorMsg' = NoError
  /\ pdfFile' = file
  /\ tasks' = [tasks EXCEPT ![t] =
       [ pc |-> "timer", file |-> file, isReParsing |-> isReParsing,
         password |-> PasswordUsed(customPassword, sourcePassword),
         scale |-> renderScale, quality |-> imgQuality,
         totalPages |-> 0, i |-> 0, newImagesList |-> << >> ]]

\* Line 116, once the 100 ms timer has fired.
ImagesAfterTimer(isReParsing, imgs) == IF ~isReParsing THEN << >> ELSE imgs

TimerFired(t) ==
  /\ tasks[t].pc = "timer"
  /\ images' = ImagesAfterTimer(tasks[t].isReParsing, images)
  /\ tasks' = [tasks EXCEPT ![t].pc = "open"]
  /\ UNCHANGED << pdfFile, isProcessing, progress, outputFormat, errorMsg,
                  sourcePassword, outputPassword, showPasswordPrompt,
                  isPasswordError, isUnlocked, renderScale, imgQuality,
                  showExportSettings, pageRangeInput, selectedIds,
                  isExporting, exportType, jobs, downloads >>

\* What pdfjs.getDocument({data, password}).promise settles to.
OpenOutcome(file, password) ==
  IF file.corrupt THEN "InvalidPDFException"
  ELSE IF file.lock # "" /\ password # file.lock THEN "PasswordException"
  ELSE "opened"

\* Mutant: the pass ends without touching the flag.
ProcessingAfterPassKept(flag) == flag

\* finally { setIsProcessing(false); }, lines 174-176.
ProcessingAfterPass(flag) == FALSE

\* Lines 127-138 when the document opens, lines 167-176 when it does not.
OpenSettled(t) ==
  LET T == tasks[t]
      outcome == OpenOutcome(T.file, T.password)
  IN  /\ T.pc = "open"
      /\ IF outcome = "opened"
           THEN /\ showPasswordPrompt' = FALSE
                /\ isPasswordError' = FALSE
                /\ isUnlocked' = TRUE
                /\ progress' = [current |-> 0, total |-> T.file.numPages]
                /\ tasks' = [tasks EXCEPT ![t].pc = "page",
                                          ![t].totalPages = T.file.numPages,
                                          ![t].i = 1]
                /\ UNCHANGED << errorMsg, isProcessing >>
           ELSE /\ IF outcome = "PasswordException"
                     THEN /\ showPasswordPrompt' = TRUE
                          /\ isPasswordError' =
                               IF T.password # "" THEN TRUE ELSE isPasswordError
                          /\ UNCHANGED errorMsg
                     ELSE /\ errorMsg' = outcome
                          /\ UNCHANGED << showPasswordPrompt, isPasswordError >>
                /\ isProcessing' = ProcessingAfterPass(isProcessing)
                /\ tasks' = [tasks EXCEPT ![t] = IdleTask]
                /\ UNCHANGED << isUnlocked, progress >>
      /\ UNCHANGED << pdfFile, images, outputFormat, sourcePassword,
                      outputPassword, renderScale, imgQuality,
                      showExportSettings, pageRangeInput, selectedIds,
                      isExporting, exportType, jobs, downloads >>

\* Lines 163-166 and 174-176: what follows the loop's last iteration.
ImagesAfterLoop(T, imgs, list) == IF T.isReParsing THEN list ELSE imgs
SettingsAfterLoop(T, shown) == IF T.isReParsing THEN FALSE ELSE shown

\* The loop moves to page i+1, or ends after page totalPages.
NextIteration(t, list) ==
  IF tasks[t].i = tasks[t].totalPages
    THEN [tasks EXCEPT ![t] = IdleTask]
    ELSE [tasks EXCEPT ![t].pc = "page", ![t].i = tasks[t].i + 1,
                       ![t].newImagesList = list]

\* Lines 156-157: an initial pass publishes each page as it is rendered.
ImagesAfterPage(T, imgs, imgObj) ==
  IF ~T.isReParsing THEN Append(imgs, imgObj) ELSE imgs
SelectedAfterPage(T, selected) ==
  IF ~T.isReParsing THEN selected \cup {T.i} ELSE selected

\* Lines 138-161, one iteration of the loop: getPage(i) and render(i) settle.
\*   "rendered"  both resolve and the canvas gave a 2d context: the page is
\*               encoded, pushed and (initial pass) published;
\*   "null"      canvas.getContext('2d') returned null: the if (context)
\*               block is skipped and the loop goes on;
\*   "throw"     getPage or render rejects: the catch of lines 167-173
\*               reports it and the pass is over.
PageStep(t, outcome) ==
  LET T == tasks[t]
      last == T.i = T.totalPages
      imgObj == MakeImage(T.file, T.i, T.scale, T.quality)
      list == IF outcome = "rendered" THEN Append(T.newImagesList, imgObj)
                                      ELSE T.newImagesList
      published == IF outcome = "rendered" THEN ImagesAfterPage(T, images, imgObj)
                                           ELSE images
  IN  /\ \/ /\ outcome \in {"rendered", "null"}
            /\ images' = IF last THEN ImagesAfterLoop(T, published, list)
                                 ELSE published
            /\ selectedIds' = IF outcome = "rendered"
                                THEN SelectedAfterPage(T, selectedIds)
                                ELSE selectedIds
            /\ progress' = IF outcome = "rendered"
                             THEN [progress EXCEPT !.current = T.i]
                             ELSE progress
            /\ showExportSettings' =
                 IF last THEN SettingsAfterLoop(T, showExportSettings)
                         ELSE showExportSettings
            /\ isProcessing' = IF last THEN ProcessingAfterPass(isProcessing)
                                       ELSE isProcessing
            /\ tasks' = NextIteration(t, list)
            /\ UNCHANGED errorMsg
         \/ /\ outcome = "throw"
            /\ errorMsg' = "RenderingError"
            /\ isProcessing' = ProcessingAfterPass(isProcessing)
            /\ tasks' = [tasks EXCEPT ![t] = IdleTask]
            /\ UNCHANGED << images, selectedIds, progress, showExportSettings >>
      /\ UNCHANGED << pdfFile, outputFormat, sourcePassword, outputPassword,
                      showPasswordPrompt, isPasswordError, isUnlocked,
                      renderScale, imgQuality, pageRangeInput, isExporting,
                      exportType, jobs, downloads >>

\* The iteration as one step: both awaits of page i settle.
PageSettled(t, outcome) ==
  /\ tasks[t].pc = "page"
  /\ PageStep(t, outcome)

\* The same iteration in two steps.  Lines 138-147: getPage(i) settles; when
\* it resolves and the canvas gives a 2d context, the canvas is sized to the
\* viewport and filled, and the render is awaited ("render", line 149).
GetPageSettled(t, outcome) ==
  /\ tasks[t].pc = "page"
  /\ IF outcome = "context"
       THEN /\ tasks' = [tasks EXCEPT ![t].pc = "render"]
            /\ UNCHANGED << pdfFile, images, isProcessing, progress,
                            outputFormat, errorMsg, sourcePassword,
                            outputPassword, showPasswordPrompt,
                            isPasswordError, isUnlocked, renderScale,
                            imgQuality, showExportSettings, pageRangeInput,
                            selectedIds, isExporting, exportType, jobs,
                            downloads >>
       ELSE PageStep(t, outcome)

\* Lines 149-160: the render settles; when it resolves the page is encoded
\* and published and the canvas is shrunk to 0 x 0 (line 160).
RenderSettled(t, ok) ==
  /\ tasks[t].pc = "render"
  /\ PageStep(t, IF ok THEN "rendered" ELSE "throw")

(***************************************************************************)
(* Event handlers                                                           *)
(***************************************************************************)
\* Lines 303-304: the drop zone and the file input, shown while no file is
\* chosen, call processFile(file).
LoadFile(t, file) ==
  /\ pdfFile = NoFile
  /\ ProcessFile(t, file, FALSE, "")
  /\ UNCHANGED << images, progress, outputFormat, sourcePassword,
                  outputPassword, showPasswordPrompt, isPasswordError,
                  isUnlocked, renderScale, imgQuality, showExportSettings,
                  pageRangeInput, selectedIds, isExporting, exportType,
                  jobs, downloads >>

\* Line 412: the button of the settings panel, disabled={isProcessing},
\* calls processFile(pdfFile, true).
ReParse(t) ==
  /\ pdfFile # NoFile
  /\ showExportSettings
  /\ ~isProcessing
  /\ ProcessFile(t, pdfFile, TRUE, "")
  /\ UNCHANGED << images, progress, outputFormat, sourcePassword,
                  outputPassword, showPasswordPrompt, isPasswordError,
                  isUnlocked, renderScale, imgQuality, showExportSettings,
                  pageRangeInput, selectedIds, isExporting, exportType,
                  jobs, downloads >>

\* Lines 61-73; the header button is shown while a file is chosen (293-297)
\* and the error dialog's button while errorMsg is set (463-471).
ResetAll ==
  /\ pdfFile # NoFile \/ errorMsg # NoError
  /\ pdfFile' = NoFile
  /\ images' = << >>
  /\ selectedIds' = {}
  /\ pageRangeInput' = << >>
  /\ sourcePassword' = ""
  /\ outputPassword' = ""
  /\ showPasswordPrompt' = FALSE
  /\ isPasswordError' = FALSE
  /\ isUnlocked' = FALSE
  /\ progress' = [current |-> 0, total |-> 0]
  /\ errorMsg' = NoError
  /\ UNCHANGED << isProcessing, outputFormat, renderScale, imgQuality,
                  showExportSettings, isExporting, exportType, tasks, jobs,
                  downloads >>

\* Line 439: a click on the card of page id.
ToggleSelection(id) ==
  /\ pdfFile # NoFile
  /\ id \in ImageIds(images)
  /\ selectedIds' = IF id \in selectedIds THEN selectedIds \ {id}
                                          ELSE selectedIds \cup {id}
  /\ UNCHANGED << pdfFile, images, isProcessing, progress, outputFormat,
                  errorMsg, sourcePassword, outputPassword,
                  showPasswordPrompt, isPasswordError, isUnlocked,
                  renderScale, imgQuality, showExportSettings,
                  pageRangeInput, isExporting, exportType, tasks, jobs,
                  downloads >>

\* Lines 274-280.
ToggleSelectAll ==
  /\ pdfFile # NoFile
  /\ selectedIds' = IF Cardinality(selectedIds) = Len(images)
                      THEN {}
                      ELSE ImageIds(images)
  /\ UNCHANGED << pdfFile, images, isProcessing, progress, outputFormat,
                  errorMsg, sourcePassword, outputPassword,
                  showPasswordPrompt, isPasswordError, isUnlocked,
                  renderScale, imgQuality, showExportSettings,
                  pageRangeInput, isExporting, exportType, tasks, jobs,
                  downloads >>

\* Line 359: the button that shows and hides the settings panel.
ToggleExportSettings ==
  /\ pdfFile # NoFile
  /\ showExportSettings' = ~showExportSettings
  /\ UNCHANGED << pdfFile, images, isProcessing, progress, outputFormat,
                  errorMsg, sourcePassword, outputPassword,
                  showPasswordPrompt, isPasswordError, isUnlocked,
                  renderScale, imgQuality, pageRangeInput, selectedIds,
                  isExporting, exportType, tasks, jobs, downloads >>

\* Line 391: the scale slider of the settings panel.
SetRenderScale(value) ==
  /\ pdfFile # NoFile
  /\ showExportSettings
  /\ value # renderScale
  /\ renderScale' = value
  /\ UNCHANGED << pdfFile, images, isProcessing, progress, outputFormat,
                  errorMsg, sourcePassword, outputPassword,
                  showPasswordPrompt, isPasswordError, isUnlocked,
                  imgQuality, showExportSettings, pageRangeInput,
                  selectedIds, isExporting, exportType, tasks, jobs,
                  downloads >>

(***************************************************************************)
(* The export handlers: one record per invocation in flight.  `selected`    *)
(* is the list the handler computed when it was called; pc is the callback  *)
(* or await the invocation is waiting for:                                  *)
(*   "timer"   setTimeout(..., 500)                      lines 185, 238     *)
(*   "zip"     await zip.generateAsync(...)              line 224           *)
(*   "decode"  await new Promise(r => imgEl.onload = r)  line 256           *)
(***************************************************************************)
IdleJob ==
  [ pc |-> "idle", kind |-> "", selected |-> << >>, name |-> << >>,
    password |-> "", quality |-> 0, canvas |-> << >>, k |-> 0,
    currentY |-> 0, drawn |-> << >> ]

JobIds == DOMAIN jobs
JobInFlight(j) == jobs[j].pc # "idle"
FreeJob(j) == /\ ~JobInFlight(j)
              /\ \A u \in JobIds : u < j => JobInFlight(u)
JobsInFlight == { j \in JobIds : JobInFlight(j) }

\* Mutant: every page passes the filter, selected or not.
FilterAll(imgs, ids) == imgs

\* images.filter(img => selectedIds.has(img.id))
RECURSIVE Filter(_, _)
Filter(imgs, ids) ==
  IF imgs = << >> THEN << >>
  ELSE IF Head(imgs).id \in ids
    THEN << Head(imgs) >> \o Filter(Tail(imgs), ids)
    ELSE Filter(Tail(imgs), ids)

\* .sort((a, b) => a.id - b.id): a stable sort, by insertion.
RECURSIVE InsertById(_, _)
InsertById(sorted, img) ==
  IF sorted = << >> THEN << img >>
  ELSE IF img.id < Head(sorted).id
    THEN << img >> \o sorted
    ELSE << Head(sorted) >> \o InsertById(Tail(sorted), img)

\* Mutant: the selected pages are left in the order of images.
SortByIdNone(imgs) == imgs

RECURSIVE SortById(_)
SortById(imgs) ==
  IF imgs = << >> THEN << >>
  ELSE InsertById(SortById(SubSeq(imgs, 1, Len(imgs) - 1)), imgs[Len(imgs)])

\* pdfFile?.name.replace(/\.[^/.]+$/, "") followed by the suffix.
SuggestedName(file, suffix) == << file.name, suffix >>

\* Mutant: the handler goes on with an empty list.
ExportProceedsAlways(selected) == TRUE

\* if (selected.length === 0) return;
ExportProceeds(selected) == Len(selected) # 0

\* The export buttons are disabled={selectedIds.size === 0 || isProcessing}
\* and only those of the chosen output format are shown (lines 365-378).
ExportEnabled(format) ==
  /\ pdfFile # NoFile
  /\ outputFormat = format
  /\ ~(Cardinality(selectedIds) = 0 \/ isProcessing)

\* The model stops taking export requests once MaxDownloads artifacts are
\* saved or on their way.
ExportBudget == Len(downloads) + Cardinality(JobsInFlight) < MaxDownloads

\* What an export handler does before its first timer or await; the state
\* is left alone when nothing selected is present.
BeginExport(j, selected, message, started) ==
  IF ExportProceeds(selected)
    THEN /\ exportType' = message
         /\ isExporting' = TRUE
         /\ jobs' = [jobs EXCEPT ![j] = started]
    ELSE UNCHANGED << exportType, isExporting, jobs >>

\* Lines 179-185.
DownloadPDF(j) ==
  LET selected == SortById(Filter(images, selectedIds))
  IN  /\ ExportEnabled("PDF")
      /\ FreeJob(j)
      /\ ExportBudget
      /\ BeginExport(j, selected, "PDF",
           [IdleJob EXCEPT !.pc = "timer", !.kind = "PDF",
                           !.selected = selected,
                           !.name = SuggestedName(pdfFile, "_safe.pdf"),
                           !.password = outputPassword])
      /\ UNCHANGED << pdfFile, images, isProcessing, progress, outputFormat,
                      errorMsg, sourcePassword, outputPassword,
                      showPasswordPrompt, isPasswordError, isUnlocked,
                      renderScale, imgQuality, showExportSettings,
                      pageRangeInput, selectedIds, tasks, downloads >>

\* Mutant: every page is portrait.
OrientationPortrait(img) == "p"

\* new jsPDF({orientation, format}) and doc.addPage(format, orientation).
Orientation(img) == IF img.width > img.height THEN "l" ELSE "p"
PdfPage(img) ==
  [ format |-> << img.width, img.height >>, orientation |-> Orientation(img),
    image |-> [data |-> img.data, x |-> 0, y |-> 0,
               w |-> img.width, h |-> img.height] ]

\* Mutant: the owner password is left blank.
EncryptionOwnerBlank(password) ==
  IF password # ""
    THEN << [ userPassword |-> password, ownerPassword |-> "",
              userPermissions |-> {"print", "copy", "modify"} ] >>
    ELSE << >>

\* doc.setEncryption({userPassword, ownerPassword, userPermissions})
Encryption(password) ==
  IF password # ""
    THEN << [ userPassword |-> password, ownerPassword |-> password,
              userPermissions |-> {"print", "copy", "modify"} ] >>
    ELSE << >>

\* Mutant: the artifact is handed over even when building it threw.
HandedAlways(saved, artifact, ok) == Append(saved, artifact)

\* doc.save(...) and link.click() are the last statements of their try
\* blocks: the artifact is handed to the browser only when nothing threw.
Handed(saved, artifact, ok) == IF ok THEN Append(saved, artifact) ELSE saved

\* Lines 186-212, the timer's callback: the document is built and saved, or
\* jsPDF throws and the catch alerts; finally isExporting is cleared.
PdfTimerFired(j, ok) ==
  LET J == jobs[j]
  IN  /\ J.pc = "timer"
      /\ J.kind = "PDF"
      /\ downloads' =
           Handed(downloads,
                  [ kind |-> "PDF", filename |-> J.name,
                    pages |-> [ n \in 1..Len(J.selected) |-> PdfPage(J.selected[n]) ],
                    encryption |-> Encryption(J.password) ],
                  ok)
      /\ isExporting' = FALSE
      /\ jobs' = [jobs EXCEPT ![j] = IdleJob]
      /\ UNCHANGED << pdfFile, images, isProcessing, progress, outputFormat,
                      errorMsg, sourcePassword, outputPassword,
                      showPasswordPrompt, isPasswordError, isUnlocked,
                      renderScale, imgQuality, showExportSettings,
                      pageRangeInput, selectedIds, exportType, tasks >>

\* Lines 216-224, up to await zip.generateAsync.
DownloadZip(j) ==
  LET selected == Filter(images, selectedIds)
  IN  /\ ExportEnabled("IMAGE")
      /\ FreeJob(j)
      /\ ExportBudget
      /\ BeginExport(j, selected, "ZIP",
           [IdleJob EXCEPT !.pc = "zip", !.kind = "ZIP",
                           !.selected = selected,
                           !.name = SuggestedName(pdfFile, "_images.zip")])
      /\ UNCHANGED << pdfFile, images, isProcessing, progress, outputFormat,
                      errorMsg, sourcePassword, outputPassword,
                      showPasswordPrompt, isPasswordError, isUnlocked,
                      renderScale, imgQuality, showExportSettings,
                      pageRangeInput, selectedIds, tasks, downloads >>

\* zip.file(`page_${img.id}.jpg`, ...)
ZipEntry(img) == [ name |-> << "page_", img.id, ".jpg" >>, data |-> img.data ]

\* Lines 224-229: generateAsync settles; there is no catch, only finally.
ZipSettled(j, ok) ==
  LET J == jobs[j]
  IN  /\ J.pc = "zip"
      /\ downloads' =
           Handed(downloads,
                  [ kind |-> "ZIP", filename |-> J.name,
                    entries |-> [ n \in 1..Len(J.selected) |-> ZipEntry(J.selected[n]) ] ],
                  ok)
      /\ isExporting' = FALSE
      /\ jobs' = [jobs EXCEPT ![j] = IdleJob]
      /\ UNCHANGED << pdfFile, images, isProcessing, progress, outputFormat,
                      errorMsg, sourcePassword, outputPassword,
                      showPasswordPrompt, isPasswordError, isUnlocked,
                      renderScale, imgQuality, showExportSettings,
                      pageRangeInput, selectedIds, exportType, tasks >>

\* Lines 232-238.
DownloadLongImage(j) ==
  LET selected == SortById(Filter(images, selectedIds))
  IN  /\ ExportEnabled("IMAGE")
      /\ FreeJob(j)
      /\ ExportBudget
      /\ BeginExport(j, selected, "LONG",
           [IdleJob EXCEPT !.pc = "timer", !.kind = "LONG",
                           !.selected = selected,
                           !.name = SuggestedName(pdfFile, "_long.jpg"),
                           !.quality = imgQuality])
      /\ UNCHANGED << pdfFile, images, isProcessing, progress, outputFormat,
                      errorMsg, sourcePassword, outputPassword,
                      showPasswordPrompt, isPasswordError, isUnlocked,
                      renderScale, imgQuality, showExportSettings,
                      pageRangeInput, selectedIds, tasks, downloads >>

\* Mutant: the canvas takes the width of the first page.
MaxWidthFirst(imgs) == imgs[1].width

\* Math.max(...selected.map(img => img.width))
RECURSIVE MaxWidth(_)
MaxWidth(imgs) ==
  IF Len(imgs) = 1 THEN imgs[1].width
  ELSE Max(imgs[1].width, MaxWidth(Tail(imgs)))

\* selected.reduce((acc, img) => acc + img.height, 0)
RECURSIVE TotalHeight(_)
TotalHeight(imgs) ==
  IF imgs = << >> THEN 0 ELSE imgs[1].height + TotalHeight(Tail(imgs))

\* Lines 239-256, the timer's callback up to the first await: the canvas is
\* sized and, when it gives a 2d context, filled; the first page's decode
\* is awaited.  With no context nothing is drawn or saved.
LongTimerFired(j, context) ==
  LET J == jobs[j]
  IN  /\ J.pc = "timer"
      /\ J.kind = "LONG"
      /\ IF context
           THEN /\ jobs' = [jobs EXCEPT ![j].pc = "decode", ![j].k = 1,
                              ![j].currentY = 0,
                              ![j].canvas = << MaxWidth(J.selected),
                                               TotalHeight(J.selected) >>]
                /\ UNCHANGED isExporting
           ELSE /\ jobs' = [jobs EXCEPT ![j] = IdleJob]
                /\ isExporting' = FALSE
      /\ UNCHANGED << pdfFile, images, isProcessing, progress, outputFormat,
                      errorMsg, sourcePassword, outputPassword,
                      showPasswordPrompt, isPasswordError, isUnlocked,
                      renderScale, imgQuality, showExportSettings,
                      pageRangeInput, selectedIds, exportType, tasks,
                      downloads >>

\* Lines 256-270: the k-th page's onload fires; it is drawn and either the
\* next decode is awaited or the canvas is encoded and saved; when drawing
\* or encoding throws, the catch alerts and nothing is saved.  (An image
\* that fails to decode never fires onload: the step never happens.)
ImageLoaded(j, ok) ==
  LET J == jobs[j]
      imgObj == J.selected[J.k]
      drawn == Append(J.drawn,
                 [ id |-> imgObj.id,
                   x2 |-> J.canvas[1] - imgObj.width,   \* twice the x offset
                   y |-> J.currentY ])
      currentY == J.currentY + imgObj.height
  IN  /\ J.pc = "decode"
      /\ IF ~ok
           THEN /\ jobs' = [jobs EXCEPT ![j] = IdleJob]
                /\ isExporting' = FALSE
                /\ UNCHANGED downloads
           ELSE IF J.k = Len(J.selected)
           THEN /\ downloads' = Append(downloads,
                     [ kind |-> "LONG", filename |-> J.name,
                       width |-> J.canvas[1], height |-> J.canvas[2],
                       drawn |-> drawn, quality |-> J.quality ])
                /\ isExporting' = FALSE
                /\ jobs' = [jobs EXCEPT ![j] = IdleJob]
           ELSE /\ jobs' = [jobs EXCEPT ![j].k = J.k + 1,
                                        ![j].currentY = currentY,
                                        ![j].drawn = drawn]
                /\ UNCHANGED << downloads, isExporting >>
      /\ UNCHANGED << pdfFile, images, isProcessing, progress, outputFormat,
                      errorMsg, sourcePassword, outputPassword,
                      showPasswordPrompt, isPasswordError, isUnlocked,
                      renderScale, imgQuality, showExportSettings,
                      pageRangeInput, selectedIds, exportType, tasks >>

\* Line 256 when the k-th page's data does not decode: the image fires its
\* error event, for which no handler is installed, and the promise the loop
\* awaits is never settled; nothing after the await runs, the finally of
\* lines 268-270 included.
DecodeFailed(j) ==
  /\ jobs[j].pc = "decode"
  /\ jobs' = [jobs EXCEPT ![j].pc = "error"]
  /\ UNCHANGED << pdfFile, images, isProcessing, progress, outputFormat,
                  errorMsg, sourcePassword, outputPassword,
                  showPasswordPrompt, isPasswordError, isUnlocked,
                  renderScale, imgQuality, showExportSettings,
                  pageRangeInput, selectedIds, isExporting, exportType,
                  tasks, downloads >>

\* Lines 345-346: the two format buttons.
SetOutputFormat(format) ==
  /\ pdfFile # NoFile
  /\ format # outputFormat
  /\ outputFormat' = format
  /\ UNCHANGED << pdfFile, images, isProcessing, progress, errorMsg,
                  sourcePassword, outputPassword, showPasswordPrompt,
                  isPasswordError, isUnlocked, renderScale, imgQuality,
                  showExportSettings, pageRangeInput, selectedIds,
                  isExporting, exportType, tasks, jobs, downloads >>

\* Line 403: the source password field of the settings panel.
SetSourcePassword(value) ==
  /\ pdfFile # NoFile
  /\ showExportSettings
  /\ value # sourcePassword
  /\ sourcePassword' = value
  /\ UNCHANGED << pdfFile, images, isProcessing, progress, outputFormat,
                  errorMsg, outputPassword, showPasswordPrompt,
                  isPasswordError, isUnlocked, renderScale, imgQuality,
                  showExportSettings, pageRangeInput, selectedIds,
                  isExporting, exportType, tasks, jobs, downloads >>

\* Line 407: the output password field of the settings panel.
SetOutputPassword(value) ==
  /\ pdfFile # NoFile
  /\ showExportSettings
  /\ value # outputPassword
  /\ outputPassword' = value
  /\ UNCHANGED << pdfFile, images, isProcessing, progress, outputFormat,
                  errorMsg, sourcePassword, showPasswordPrompt,
                  isPasswordError, isUnlocked, renderScale, imgQuality,
                  showExportSettings, pageRangeInput, selectedIds,
                  isExporting, exportType, tasks, jobs, downloads >>

(***************************************************************************)
(* The pipeline specification: files are loaded, re-parsed and reset while  *)
(* passes are in flight, and the selection is edited.                       *)
(***************************************************************************)
DocA == MakeFile("a.pdf", MaxPages, "", FALSE)
DocB == MakeFile("b.pdf", 1, "", FALSE)
Files == {DocA, DocB}
\* The value the scale slider is moved to (2.0, in halves).
RenderScales == {4}
SampleTexts == { << "1", "-", "9" >> }

Init ==
  /\ pdfFile = NoFile
  /\ images = << >>
  /\ isProcessing = FALSE
  /\ progress = [current |-> 0, total |-> 0]
  /\ outputFormat = "IMAGE"
  /\ errorMsg = NoError
  /\ sourcePassword = ""
  /\ outputPassword = ""
  /\ showPasswordPrompt = FALSE
  /\ isPasswordError = FALSE
  /\ isUnlocked = FALSE
  /\ renderScale = DefaultScale
  /\ imgQuality = DefaultQuality
  /\ showExportSettings = FALSE
  /\ pageRangeInput = << >>
  /\ selectedIds = {}
  /\ isExporting = FALSE
  /\ exportType = ""
  /\ tasks = [t \in 1..MaxTasks |-> IdleTask]
  /\ jobs = << >>
  /\ downloads = << >>
  /\ lastOp = "none"

Next ==
  \/ \E t \in TaskIds, f \in Files : LoadFile(t, f) /\ UNCHANGED lastOp
  \/ \E t \in TaskIds : ReParse(t) /\ UNCHANGED lastOp
  \/ ResetAll /\ UNCHANGED lastOp
  \/ \E id \in 1..MaxPages : ToggleSelection(id) /\ UNCHANGED lastOp
  \/ ToggleSelectAll /\ UNCHANGED lastOp
  \/ ToggleExportSettings /\ UNCHANGED lastOp
  \/ \E v \in RenderScales : SetRenderScale(v) /\ UNCHANGED lastOp
  \/ \E text \in SampleTexts : SetPageRangeInput(text) /\ UNCHANGED lastOp
  \/ ParseAndApplyRange /\ UNCHANGED lastOp
  \/ \E t \in TaskIds : TimerFired(t) /\ UNCHANGED lastOp
  \/ \E t \in TaskIds : OpenSettled(t) /\ UNCHANGED lastOp
  \/ \E t \in TaskIds, outcome \in {"rendered", "null", "throw"} :
       PageSettled(t, outcome) /\ UNCHANGED lastOp

Spec == Init /\ [][Next]_vars

(***************************************************************************)
(* The range-parsing specification: a document of n pages is loaded, any    *)
(* text over RangeChars is typed, and Enter applies it.                     *)
(***************************************************************************)
RangeChars == {"1", "3", "5", "-", ",", FullWidthComma, " ", "x"}

LoadedImages(file, scale, quality) ==
  [ i \in 1..file.numPages |-> MakeImage(file, i, scale, quality) ]

PriorSelections(n) == { {}, 1..n, { i \in 1..n : i % 2 = 0 } }

RangeTotals == {0, MaxRangeTotal \div 2, MaxRangeTotal}

InitRange ==
  \E n \in RangeTotals :
    LET doc == MakeFile("a.pdf", n, "", FALSE)
    IN  /\ pdfFile = doc
        /\ images = LoadedImages(doc, DefaultScale, DefaultQuality)
        /\ isProcessing = FALSE
        /\ progress = [current |-> n, total |-> n]
        /\ outputFormat = "IMAGE"
        /\ errorMsg = NoError
        /\ sourcePassword = ""
        /\ outputPassword = ""
        /\ showPasswordPrompt = FALSE
        /\ isPasswordError = FALSE
        /\ isUnlocked = (n > 0)
        /\ renderScale = DefaultScale
        /\ imgQuality = DefaultQuality
        /\ showExportSettings = FALSE
        /\ pageRangeInput = << >>
        /\ selectedIds \in PriorSelections(n)
        /\ isExporting = FALSE
        /\ exportType = ""
        /\ tasks = << >>
        /\ jobs = << >>
        /\ downloads = << >>
        /\ lastOp = "none"

TypeRangeChar ==
  \E c \in RangeChars :
    /\ Len(pageRangeInput) < MaxLen
    /\ SetPageRangeInput(Append(pageRangeInput, c))

\* Under this specification lastOp records the handler invoked last.
NextRange ==
  \/ TypeRangeChar /\ lastOp' = "setPageRangeInput"
  \/ ParseAndApplyRange /\ lastOp' = "parseAndApplyRange"

SpecRange == InitRange /\ [][NextRange]_vars

(***************************************************************************)
(* estimatedSize, lines 52-59: a value derived from images and selectedIds. *)
(* A formatted number is kept as its unit, its count of decimals and its    *)
(* digits: "1.50 MB" is [unit |-> "MB", decimals |-> 2, digits |-> 150].     *)
(***************************************************************************)
MiB == 1024 * 1024

\* selected.reduce((acc, img) => acc + img.size, 0)
RECURSIVE TotalBytes(_)
TotalBytes(imgs) ==
  IF imgs = << >> THEN 0 ELSE Head(imgs).size + TotalBytes(Tail(imgs))

RECURSIVE PowerOfTen(_)
PowerOfTen(n) == IF n = 0 THEN 1 ELSE 10 * PowerOfTen(n - 1)

\* (num / den).toFixed(decimals): the nearest number with that many
\* decimals, the larger one on a tie.
ToFixed(num, den, decimals) ==
  (2 * num * PowerOfTen(decimals) + den) \div (2 * den)

\* totalBytes > 1024 * 1024
UsesMegabytes(totalBytes) == totalBytes > MiB

FormatBytes(totalBytes) ==
  IF totalBytes = 0
    THEN [unit |-> "KB", decimals |-> 0, digits |-> 0]
    ELSE IF UsesMegabytes(totalBytes)
      THEN [unit |-> "MB", decimals |-> 2, digits |-> ToFixed(totalBytes, MiB, 2)]
      ELSE [unit |-> "KB", decimals |-> 1, digits |-> ToFixed(totalBytes, 1024, 1)]

EstimatedSize(imgs, ids) == FormatBytes(TotalBytes(Filter(imgs, ids)))

(***************************************************************************)
(* The export specification: a document is loaded (some of its pages may    *)
(* have been skipped), pages are selected, and exports are requested while  *)
(* others are in flight.                                                    *)
(***************************************************************************)
Passwords == {"", "x"}

\* The pages of LoadedImages whose ids are in `present`.
PresentImages(file, present, scale, quality) ==
  Filter(LoadedImages(file, scale, quality), present)

\* images holds the pages in the order the passes appended them: ascending
\* after one pass, and not ascending after passes that overlapped.
InitExport ==
  \E present \in SUBSET (1..MaxExportPages), selected \in SUBSET (1..MaxExportPages),
     ascending \in BOOLEAN :
    LET doc == MakeFile("a.pdf", MaxExportPages, "", FALSE)
        pages == PresentImages(doc, present, DefaultScale, DefaultQuality)
    IN  /\ pdfFile = doc
        /\ images = IF ascending
                      THEN pages
                      ELSE [ n \in 1..Len(pages) |-> pages[Len(pages) + 1 - n] ]
        /\ isProcessing = FALSE
        /\ progress = [current |-> MaxExportPages, total |-> MaxExportPages]
        /\ outputFormat = "IMAGE"
        /\ errorMsg = NoError
        /\ sourcePassword = ""
        /\ outputPassword = ""
        /\ showPasswordPrompt = FALSE
        /\ isPasswordError = FALSE
        /\ isUnlocked = TRUE
        /\ renderScale = DefaultScale
        /\ imgQuality = DefaultQuality
        /\ showExportSettings = TRUE
        /\ pageRangeInput = << >>
        /\ selectedIds = selected
        /\ isExporting = FALSE
        /\ exportType = ""
        /\ tasks = << >>
        /\ jobs = [j \in 1..MaxJobs |-> IdleJob]
        /\ downloads = << >>
        /\ lastOp = "none"

\* Under this specification lastOp records the export handler invoked last.
NextExport ==
  \/ \E j \in JobIds : DownloadPDF(j) /\ lastOp' = "downloadPDF"
  \/ \E j \in JobIds : DownloadZip(j) /\ lastOp' = "downloadZip"
  \/ \E j \in JobIds : DownloadLongImage(j) /\ lastOp' = "downloadLongImage"
  \/ \E j \in JobIds, ok \in BOOLEAN : PdfTimerFired(j, ok) /\ UNCHANGED lastOp
  \/ \E j \in JobIds, ok \in BOOLEAN : ZipSettled(j, ok) /\ UNCHANGED lastOp
  \/ \E j \in JobIds, context \in BOOLEAN : LongTimerFired(j, context) /\ UNCHANGED lastOp
  \/ \E j \in JobIds, ok \in BOOLEAN : ImageLoaded(j, ok) /\ UNCHANGED lastOp
  \/ \E format \in {"IMAGE", "PDF"} : SetOutputFormat(format) /\ UNCHANGED lastOp
  \/ \E value \in Passwords : SetOutputPassword(value) /\ UNCHANGED lastOp

SpecExport == InitExport /\ [][NextExport]_vars

(***************************************************************************)
(* The export specification with its scheduling: a page's data may fail to  *)
(* decode, and whatever an export in flight waits for happens in the end:   *)
(* the 500 ms timer fires, generateAsync settles, and the image a decode    *)
(* was started on fires its load or its error event.                        *)
(***************************************************************************)
NextExportLive ==
  \/ NextExport
  \/ \E j \in JobIds : DecodeFailed(j) /\ UNCHANGED lastOp

\* The event export j is waiting for occurs.
JobSettles(j) ==
  /\ \/ \E ok \in BOOLEAN : PdfTimerFired(j, ok)
     \/ \E ok \in BOOLEAN : ZipSettled(j, ok)
     \/ \E context \in BOOLEAN : LongTimerFired(j, context)
     \/ \E ok \in BOOLEAN : ImageLoaded(j, ok)
     \/ DecodeFailed(j)
  /\ UNCHANGED lastOp

SpecExportLive ==
  /\ InitExport
  /\ [][NextExportLive]_vars
  /\ \A j \in 1..MaxJobs : WF_vars(JobSettles(j))

(***************************************************************************)
(* The authentication specification: a protected or a damaged file is       *)
(* loaded, passwords are typed in the settings panel and the file is        *)
(* re-parsed, with resets and new loads in between.                         *)
(***************************************************************************)
DocLocked == MakeFile("l.pdf", 1, "k", FALSE)
DocCorrupt == MakeFile("c.pdf", 1, "", TRUE)
AuthFiles == {DocLocked, DocCorrupt}
SourcePasswords == {"", "k", "w"}

NextAuth ==
  \/ \E t \in TaskIds, f \in AuthFiles : LoadFile(t, f) /\ UNCHANGED lastOp
  \/ \E t \in TaskIds : ReParse(t) /\ UNCHANGED lastOp
  \/ ResetAll /\ UNCHANGED lastOp
  \/ ToggleExportSettings /\ UNCHANGED lastOp
  \/ \E value \in SourcePasswords : SetSourcePassword(value) /\ UNCHANGED lastOp
  \/ \E t \in TaskIds : TimerFired(t) /\ UNCHANGED lastOp
  \/ \E t \in TaskIds : OpenSettled(t) /\ UNCHANGED lastOp
  \/ \E t \in TaskIds, outcome \in {"rendered", "null", "throw"} :
       PageSettled(t, outcome) /\ UNCHANGED lastOp

SpecAuth == Init /\ [][NextAuth]_vars

(***************************************************************************)
(* The surface specification: files are loaded and reset while passes are   *)
(* in flight, and each iteration of a pass takes two steps, so that the     *)
(* states in which a canvas holds a page's pixels are visible.              *)
(***************************************************************************)
NextSurface ==
  \/ \E t \in TaskIds, f \in Files : LoadFile(t, f) /\ UNCHANGED lastOp
  \/ ResetAll /\ UNCHANGED lastOp
  \/ \E t \in TaskIds : TimerFired(t) /\ UNCHANGED lastOp
  \/ \E t \in TaskIds : OpenSettled(t) /\ UNCHANGED lastOp
  \/ \E t \in TaskIds, outcome \in {"context", "null", "throw"} :
       GetPageSettled(t, outcome) /\ UNCHANGED lastOp
  \/ \E t \in TaskIds, ok \in BOOLEAN : RenderSettled(t, ok) /\ UNCHANGED lastOp

SpecSurface == Init /\ [][NextSurface]_vars

(***************************************************************************)
(* The authentication specification with its scheduling: whatever a pass    *)
(* in flight waits for happens in the end: the 100 ms timer fires and each  *)
(* call to pdf.js resolves or rejects.                                      *)
(***************************************************************************)
\* The event pass t is waiting for occurs.
TaskSettles(t) ==
  /\ \/ TimerFired(t)
     \/ OpenSettled(t)
     \/ \E outcome \in {"rendered", "null", "throw"} : PageSettled(t, outcome)
  /\ UNCHANGED lastOp

SpecAuthLive ==
  /\ Init
  /\ [][NextAuth]_vars
  /\ \A t \in 1..MaxTasks : WF_vars(TaskSettles(t))

(***************************************************************************)
(* The estimate specification: a document is loaded whose pages encoded to  *)
(* JPEG texts of various lengths, and pages are selected and deselected.    *)
(***************************************************************************)
\* Lengths of data URLs: the sizes they give are 0, 524288 (half a MiB),
\* 1048575, 1048576 (one MiB) and 1048578 bytes.
SampleLengths == {23, 699073, 1398123, 1398124, 1398126}

\* Page i of the file when its data URL has len characters.
EncodedImage(file, i, len) ==
  [MakeImage(file, i, DefaultScale, DefaultQuality) EXCEPT !.size = SizeInBytes(len)]

InitEstimate ==
  \E lens \in [1..MaxEstimatePages -> SampleLengths] :
    LET doc == MakeFile("a.pdf", MaxEstimatePages, "", FALSE)
    IN  /\ pdfFile = doc
        /\ images = [ i \in 1..MaxEstimatePages |-> EncodedImage(doc, i, lens[i]) ]
        /\ isProcessing = FALSE
        /\ progress = [current |-> MaxEstimatePages, total |-> MaxEstimatePages]
        /\ outputFormat = "IMAGE"
        /\ errorMsg = NoError
        /\ sourcePassword = ""
        /\ outputPassword = ""
        /\ showPasswordPrompt = FALSE
        /\ isPasswordError = FALSE
        /\ isUnlocked = TRUE
        /\ renderScale = DefaultScale
        /\ imgQuality = DefaultQuality
        /\ showExportSettings = FALSE
        /\ pageRangeInput = << >>
        /\ selectedIds = {}
        /\ isExporting = FALSE
        /\ exportType = ""
        /\ tasks = << >>
        /\ jobs = << >>
        /\ downloads = << >>
        /\ lastOp = "none"

NextEstimate ==
  \/ \E id \in 1..MaxEstimatePages : ToggleSelection(id) /\ UNCHANGED lastOp
  \/ ToggleSelectAll /\ UNCHANGED lastOp

SpecEstimate == InitEstimate /\ [][NextEstimate]_vars

(***************************************************************************)
(* Claims about parseAndApplyRange (specification SpecRange)                *)
(***************************************************************************)
\* C1: whenever parseAndApplyRange changes the selection, every id of the
\* resulting selectedIds lies in 1..progress.total.
C1_RangeWithinTotal ==
  [][ (ParseAndApplyRange /\ selectedIds' # selectedIds)
        => selectedIds' \subseteq 1..progress.total ]_vars

\* A text with a multi-digit number was applied and changed the selection.
C1_Witness ==
  /\ lastOp = "parseAndApplyRange"
  /\ pageRangeInput = << "1", "-", "1", "3" >>
  /\ progress.total = MaxRangeTotal
  /\ selectedIds = 1..MaxRangeTotal

\* The text contributes no id of 1..total: every contributed id is outside,
\* or no segment parses, or the text is blank.
ContributesNothingValid(text, total) ==
  NewSelected(Trim(text)) \cap 1..total = {}

\* C2: a text that contributes no id in 1..totalPages leaves selectedIds
\* exactly as it was; a non-empty selection is never emptied by it.
C2_NoValidIdNoChange ==
  [][ (ParseAndApplyRange /\ ContributesNothingValid(pageRangeInput, progress.total))
        => selectedIds' = selectedIds ]_vars

\* "13" was applied to a 6-page document whose even pages were selected.
C2_Witness ==
  /\ lastOp = "parseAndApplyRange"
  /\ pageRangeInput = << "1", "3" >>
  /\ progress.total = MaxRangeTotal
  /\ selectedIds # {}
  /\ selectedIds = { i \in 1..MaxRangeTotal : i % 2 = 0 }
  /\ ContributesNothingValid(pageRangeInput, progress.total)

\* A written integer: an optional minus sign and at least one digit.
IsDecimal(s) == s # << >> /\ \A k \in 1..Len(s) : s[k] \in Digits
IsInteger(s) ==
  \/ IsDecimal(s)
  \/ (s # << >> /\ Head(s) = "-" /\ IsDecimal(Tail(s)))

\* The texts 'a-b' with a and b written integers, and where a ends.
PairCuts(text) ==
  { k \in 2..(Len(text) - 1) :
      /\ text[k] = "-"
      /\ IsInteger(SubSeq(text, 1, k - 1))
      /\ IsInteger(SubSeq(text, k + 1, Len(text))) }
IsPairText(text) == PairCuts(text) # {}
SwappedPair(text) ==
  LET k == CHOOSE k \in PairCuts(text) : TRUE
  IN  SubSeq(text, k + 1, Len(text)) \o << "-" >> \o SubSeq(text, 1, k - 1)

\* C3: applying 'b-a' gives the selection that applying 'a-b' gives, for all
\* integers a and b, any page count and any prior selection.
C3_InvertedRangeSame ==
  [][ (ParseAndApplyRange /\ IsPairText(pageRangeInput))
        => selectedIds' =
             RangeResult(SwappedPair(pageRangeInput), progress.total, selectedIds) ]_vars

\* '5-3' was applied to a 6-page document and selected {3,4,5}.
C3_Witness ==
  /\ lastOp = "parseAndApplyRange"
  /\ pageRangeInput = << "5", "-", "3" >>
  /\ progress.total = 6
  /\ selectedIds = {3, 4, 5}

\* The range grammar as the specification words it: a segment is a single
\* integer a, covering a, or a-b, covering everything between a and b.
SegmentCovers(seg, i) ==
  LET t == Trim(seg)
  IN  \/ IsDecimal(t) /\ i = DecimalValue(t, 0)
      \/ \E k \in 2..(Len(t) - 1) :
           LET a == Trim(SubSeq(t, 1, k - 1))
               b == Trim(SubSeq(t, k + 1, Len(t)))
           IN  /\ t[k] = "-"
               /\ IsDecimal(a)
               /\ IsDecimal(b)
               /\ \/ DecimalValue(a, 0) <= i /\ i <= DecimalValue(b, 0)
                  \/ DecimalValue(b, 0) <= i /\ i <= DecimalValue(a, 0)
IsSegment(seg) ==
  LET t == Trim(seg)
  IN  \/ IsDecimal(t)
      \/ \E k \in 2..(Len(t) - 1) :
           /\ t[k] = "-"
           /\ IsDecimal(Trim(SubSeq(t, 1, k - 1)))
           /\ IsDecimal(Trim(SubSeq(t, k + 1, Len(t))))
Segments(text) == Split(text, {",", FullWidthComma})
IsRangeText(text) ==
  \A k \in 1..Len(Segments(text)) : IsSegment(Segments(text)[k])
ClampedUnion(text, total) ==
  { i \in 1..total :
      \E k \in 1..Len(Segments(text)) : SegmentCovers(Segments(text)[k], i) }

\* C4: when a text of integer and a-b segments contributes an id of
\* 1..totalPages, selectedIds becomes exactly the clamped union of the
\* segments' ids; ids selected before and not in it are dropped.
C4_ReplacedByClampedUnion ==
  [][ ( /\ ParseAndApplyRange
        /\ IsRangeText(pageRangeInput)
        /\ ClampedUnion(pageRangeInput, progress.total) # {} )
        => selectedIds' = ClampedUnion(pageRangeInput, progress.total) ]_vars

\* '1,5' was applied to a 6-page document: exactly {1,5} is selected, none
\* of the pages selected before is kept.
C4_Witness ==
  /\ lastOp = "parseAndApplyRange"
  /\ pageRangeInput = << "1", ",", "5" >>
  /\ progress.total = 6
  /\ selectedIds = {1, 5}

(***************************************************************************)
(* Claims about the rasterization passes, under Spec.                       *)
(***************************************************************************)

\* The pass `t` takes its last step and ends normally (lines 162-165).
PassCompletes(t) ==
  /\ tasks[t].pc = "page"
  /\ tasks[t].i = tasks[t].totalPages
  /\ PageSettled(t, "rendered") \/ PageSettled(t, "null")

\* C5: when the rendering of page k fails during a pass, no fatal error is
\* raised and nothing of page k is published; the pass goes on with page
\* k+1 or, when k was the last page, ends normally with errorMsg unset.
C5_PageFailureSkipped ==
  [][\A t \in TaskIds :
       PageSettled(t, "throw") =>
         /\ errorMsg' = NoError
         /\ ImageIds(images') = ImageIds(images)
         /\ IF tasks[t].i < tasks[t].totalPages
              THEN /\ tasks'[t].pc = "page"
                   /\ tasks'[t].i = tasks[t].i + 1
              ELSE ~isProcessing']_vars

\* The source, scale and quality a page image was rendered with.
Generation(img) == << img.data[1], img.data[3], img.data[4] >>

\* C6: while a re-rasterization is in flight the visible collection only
\* changes by being replaced, when that pass ends, with the pages the pass
\* rendered (or by being emptied by a reset); it never becomes a mix of
\* pages of different passes.
C6_ReParseReplacesAtomically ==
  [][\A t \in TaskIds :
       (InFlight(t) /\ tasks[t].isReParsing /\ images' # images) =>
         \/ images' = << >>
         \/ /\ PassCompletes(t)
            /\ \A n \in 1..Len(images') :
                 Generation(images'[n]) =
                   << tasks[t].file.name, tasks[t].scale, tasks[t].quality >>]_vars

\* C7: when a re-rasterization completes, every selected id is the id of a
\* page of the new generation.
C7_SelectionPrunedAfterReParse ==
  [][\A t \in TaskIds :
       (tasks[t].isReParsing /\ PassCompletes(t)) =>
         selectedIds' \subseteq ImageIds(images')]_vars

\* C8: in every reachable state the selected ids are ids of pages present
\* in images.
C8_SelectionWithinImages == selectedIds \subseteq ImageIds(images)

(***************************************************************************)
(* Claims about the exports, under SpecExport.                              *)
(***************************************************************************)

\* One of the three export handlers is invoked in this step.
ExportInvoked ==
  \E j \in JobIds : DownloadPDF(j) \/ DownloadZip(j) \/ DownloadLongImage(j)

\* C9: an export handler invoked when no selected id is the id of a page in
\* images changes nothing: isExporting is not set, no job is started and no
\* artifact is saved.
C9_EmptyExportIsNoOp ==
  [][(Filter(images, selectedIds) = << >> /\ ExportInvoked) =>
       UNCHANGED << uiVars, tasks, jobs, downloads >>]_vars

\* An export was requested with ids selected, none of them present, and
\* nothing was started.
C9_Witness ==
  /\ lastOp \in {"downloadPDF", "downloadZip", "downloadLongImage"}
  /\ selectedIds # {}
  /\ Filter(images, selectedIds) = << >>
  /\ ~isExporting
  /\ JobsInFlight = {}
  /\ downloads = << >>

\* C10: at most one export job is in flight, and isExporting is true for as
\* long as a job is in flight.
C10_OneExportInFlight ==
  /\ Cardinality(JobsInFlight) <= 1
  /\ JobsInFlight # {} => isExporting

\* The sum of the heights of the pages imgs[1..n].
RECURSIVE HeightsUpTo(_, _)
HeightsUpTo(imgs, n) ==
  IF n = 0 THEN 0 ELSE HeightsUpTo(imgs, n - 1) + imgs[n].height

\* w is the largest width among the pages of imgs.
IsWidestOf(w, imgs) ==
  /\ \E n \in 1..Len(imgs) : imgs[n].width = w
  /\ \A n \in 1..Len(imgs) : imgs[n].width <= w

\* The long images saved so far.
LongImages == { n \in 1..Len(downloads) : downloads[n].kind = "LONG" }

\* C11: the canvas downloadLongImage stitches on, and the long image it
\* saves, is as high as the sum of the heights of the selected pages and
\* as wide as the widest of them.
C11_StitchedCanvasSize ==
  [][\A j \in JobIds :
       LET J == jobs[j]
       IN  /\ (J.pc = "timer" /\ LongTimerFired(j, TRUE)) =>
                /\ jobs'[j].canvas[2] = HeightsUpTo(J.selected, Len(J.selected))
                /\ IsWidestOf(jobs'[j].canvas[1], J.selected)
           /\ (J.pc = "decode" /\ J.k = Len(J.selected) /\ ImageLoaded(j, TRUE)) =>
                LET saved == downloads'[Len(downloads')]
                IN  /\ saved.height = HeightsUpTo(J.selected, Len(J.selected))
                    /\ IsWidestOf(saved.width, J.selected)
                    /\ Len(saved.drawn) = Len(J.selected)]_vars

\* A long image of two pages of different widths was saved.
C11_Witness ==
  \E n \in LongImages :
    /\ Len(downloads[n].drawn) = 2
    /\ downloads[n].width = ViewportWidth(2, DefaultScale)
    /\ downloads[n].width # ViewportWidth(1, DefaultScale)
    /\ downloads[n].height =
         ViewportHeight(1, DefaultScale) + ViewportHeight(2, DefaultScale)

(***************************************************************************)
(* Claims about estimatedSize, under SpecEstimate.                          *)
(***************************************************************************)

\* The bytes of the pages that are selected and present.
SelectedBytes == TotalBytes(Filter(images, selectedIds))

PresentSelected == { images[n] : n \in { m \in 1..Len(images) : images[m].id \in selectedIds } }

\* The bytes of the pages imgs[1..n] whose id is in ids.
RECURSIVE BytesUpTo(_, _, _)
BytesUpTo(imgs, ids, n) ==
  IF n = 0 THEN 0
  ELSE BytesUpTo(imgs, ids, n - 1) + (IF imgs[n].id \in ids THEN imgs[n].size ELSE 0)

\* The pages of a sequence, as a set.
PagesOf(imgs) == { imgs[n] : n \in 1..Len(imgs) }

\* C13: the estimate is the formatted sum of the sizes of the pages that are
\* present and selected, "0 KB" when there is none; an export that starts
\* works on exactly those pages, and none starts when there is none.
C13_OnlyPresentSelectedPages ==
  /\ [](/\ EstimatedSize(images, selectedIds) =
             FormatBytes(BytesUpTo(images, selectedIds, Len(images)))
        /\ PresentSelected = {} =>
             EstimatedSize(images, selectedIds) =
               [unit |-> "KB", decimals |-> 0, digits |-> 0])
  /\ [][\A j \in JobIds :
          (~JobInFlight(j) /\ (DownloadPDF(j) \/ DownloadZip(j) \/ DownloadLongImage(j))) =>
            IF PresentSelected = {}
              THEN UNCHANGED << jobs, downloads >>
              ELSE /\ PagesOf(jobs'[j].selected) = PresentSelected
                   /\ Len(jobs'[j].selected) = Cardinality(PresentSelected)]_vars

\* Two ids are selected, one of them of a page that is absent, and an export
\* of the one present page is in flight.
C13_Witness ==
  /\ Cardinality(selectedIds) = 2
  /\ Cardinality(PresentSelected) = 1
  /\ EstimatedSize(images, selectedIds).digits > 0
  /\ \E j \in JobIds : JobInFlight(j) /\ PagesOf(jobs[j].selected) = PresentSelected

(***************************************************************************)
(* Claims about authentication, under SpecAuth.                             *)
(***************************************************************************)

\* The open of pass t settles on a protected, undamaged source.
ProtectedOpenSettles(t) ==
  /\ OpenSettled(t)
  /\ tasks[t].file.lock # ""
  /\ ~tasks[t].file.corrupt

\* C14: when an open attempt on a protected source made without a password
\* fails, the password prompt is up and the error flag is down; when an
\* attempt made with a wrong password fails, the error flag is up; whatever
\* the earlier attempts were.
C14_RequiredVersusRejected ==
  [][\A t \in TaskIds :
       ProtectedOpenSettles(t) =>
         /\ tasks[t].password = "" =>
              showPasswordPrompt' /\ ~isPasswordError'
         /\ tasks[t].password \notin {"", tasks[t].file.lock} =>
              showPasswordPrompt' /\ isPasswordError']_vars

\* C15: a re-parse of a protected source started with the right password
\* typed carries that password; when its open settles the prompt and the
\* error flag are down, isUnlocked is up and the pages are being rendered,
\* whatever flags the earlier attempts left; and when every page of the pass
\* was rendered, images holds them all.
C15_CorrectPasswordUnlocks ==
  [][\A t \in TaskIds :
       /\ (pdfFile.lock # "" /\ sourcePassword = pdfFile.lock /\ ReParse(t)) =>
            tasks'[t].password = pdfFile.lock
       /\ (tasks[t].pc = "open" /\ tasks[t].password = tasks[t].file.lock
              /\ ProtectedOpenSettles(t)) =>
            /\ ~showPasswordPrompt'
            /\ ~isPasswordError'
            /\ isUnlocked'
            /\ tasks'[t].pc = "page"
       /\ (/\ tasks[t].isReParsing
           /\ tasks[t].file.lock # ""
           /\ tasks[t].pc = "page"
           /\ tasks[t].i = tasks[t].totalPages
           /\ Len(tasks[t].newImagesList) = tasks[t].totalPages - 1
           /\ PageSettled(t, "rendered")) =>
            images' = LoadedImages(tasks[t].file, tasks[t].scale, tasks[t].quality)]_vars

\* The protected file is unlocked and its pages are shown although none is
\* selected: they were produced by a re-parse, after the attempt of the
\* initial load (made with no password) had failed.
C15_Witness ==
  /\ pdfFile = DocLocked
  /\ sourcePassword = DocLocked.lock
  /\ isUnlocked
  /\ ~showPasswordPrompt
  /\ ~isPasswordError
  /\ ~isProcessing
  /\ selectedIds = {}
  /\ images = LoadedImages(DocLocked, DefaultScale, DefaultQuality)

\* C16: when an open fails for a reason other than the password, errorMsg
\* is set and the password prompt is down, whatever the state was before.
C16_DecodeErrorNoPrompt ==
  [][\A t \in TaskIds :
       (OpenSettled(t) /\ OpenOutcome(tasks[t].file, tasks[t].password) = "InvalidPDFException") =>
         /\ errorMsg' # NoError
         /\ ~showPasswordPrompt']_vars

(***************************************************************************)
(* Claims about the exported artifacts and the frame of the exports, under  *)
(* SpecExport.                                                              *)
(***************************************************************************)

\* A saved PDF document, chosen as the source of a later load: it is
\* protected by its user password when it was encrypted.
ReopenedFile(saved) ==
  MakeFile("saved.pdf", Len(saved.pages),
           IF saved.encryption = << >> THEN "" ELSE saved.encryption[1].userPassword,
           FALSE)

ExportStep(j) ==
  \/ DownloadPDF(j) \/ DownloadZip(j) \/ DownloadLongImage(j)
  \/ \E ok \in BOOLEAN :
       PdfTimerFired(j, ok) \/ ZipSettled(j, ok) \/ LongTimerFired(j, ok) \/ ImageLoaded(j, ok)

\* The step in which the export invocation j fails.
ExportFails(j) ==
  PdfTimerFired(j, FALSE) \/ ZipSettled(j, FALSE) \/ LongTimerFired(j, FALSE) \/ ImageLoaded(j, FALSE)

\* C18: no step of an export changes the file, images, selectedIds,
\* progress or the authentication flags; when an export fails nothing is
\* handed to the browser, the invocation is over and the export buttons are
\* enabled for the same selection.
C18_ExportFrame ==
  [][\A j \in JobIds :
       /\ (jobs'[j] # jobs[j] /\ ExportStep(j)) =>
            UNCHANGED << pdfFile, images, selectedIds, progress, sourcePassword,
                         showPasswordPrompt, isPasswordError, isUnlocked,
                         isProcessing, errorMsg >>
       /\ (JobInFlight(j) /\ ExportFails(j)) =>
            /\ downloads' = downloads
            /\ jobs'[j] = IdleJob
            /\ ~isExporting'
            /\ ExportEnabled(outputFormat)'
            /\ Filter(images', selectedIds') = Filter(images, selectedIds)]_vars

\* An export was started and is over, and nothing was saved: it failed.
C18_Witness ==
  /\ exportType # ""
  /\ JobsInFlight = {}
  /\ downloads = << >>
  /\ ~isExporting
  /\ Filter(images, selectedIds) # << >>

(***************************************************************************)
(* Claims about the page collection under resets and new loads, under Spec. *)
(***************************************************************************)

\* C19: images never holds a page rendered from another source than the
\* file chosen, and with no file chosen images and selectedIds are empty,
\* also while a pass of the previous source is still in flight.
C19_NoPageOfPreviousSource ==
  /\ pdfFile = NoFile => (images = << >> /\ selectedIds = {})
  /\ pdfFile # NoFile =>
       \A n \in 1..Len(images) : images[n].data[1] = pdfFile.name

C21_MalformedSegmentIgnored ==
  [][ ParseAndApplyRange
        => /\ selectedIds' =
                ApplyValidSelection(ClampedUnion(pageRangeInput, progress.total),
                                    selectedIds)
           /\ errorMsg' = errorMsg ]_vars

(***************************************************************************)
(* Claims about the content of the exported artifacts, under SpecExport.    *)
(***************************************************************************)

\* The selected present page with this id.
PageById(id) == CHOOSE p \in PresentSelected : p.id = id

\* The sum of the heights of a set of pages.
RECURSIVE SumHeights(_)
SumHeights(S) ==
  IF S = {} THEN 0
  ELSE LET p == CHOOSE p \in S : TRUE IN p.height + SumHeights(S \ {p})

\* The heights of the selected present pages with a smaller id.
HeightsBelow(id) == SumHeights({ p \in PresentSelected : p.id < id })

\* The largest width among the selected present pages.
WidestSelected ==
  CHOOSE w \in { p.width : p \in PresentSelected } :
    \A p \in PresentSelected : p.width <= w

\* The draws are of pages in strictly ascending id order, each at the
\* height of the pages below it and centred on the widest page.
DrawnInOrder(drawn) ==
  /\ \A m, n \in 1..Len(drawn) : m < n => drawn[m].id < drawn[n].id
  /\ \A n \in 1..Len(drawn) :
       /\ drawn[n].y = HeightsBelow(drawn[n].id)
       /\ drawn[n].x2 = WidestSelected - PageById(drawn[n].id).width

\* C22: downloadLongImage draws the selected pages one at a time in
\* ascending id order whatever the order of images: each page at y equal to
\* the heights of the selected pages with a smaller id and at
\* x = (maxWidth - width)/2; a page's decode is awaited only once every page
\* before it is drawn; after the last page currentY is the canvas height.
C22_StitchedInIdOrder ==
  /\ [](/\ \A j \in JobIds :
             jobs[j].pc = "decode" =>
               /\ Len(jobs[j].drawn) = jobs[j].k - 1
               /\ jobs[j].currentY = HeightsBelow(jobs[j].selected[jobs[j].k].id)
               /\ DrawnInOrder(jobs[j].drawn)
        /\ \A n \in LongImages :
             /\ DrawnInOrder(downloads[n].drawn)
             /\ { downloads[n].drawn[k].id : k \in 1..Len(downloads[n].drawn) }
                  = { p.id : p \in PresentSelected })
  /\ [][\A j \in JobIds :
          (jobs[j].pc = "decode" /\ jobs[j].k = Len(jobs[j].selected)
             /\ ImageLoaded(j, TRUE)) =>
            jobs[j].currentY + jobs[j].selected[jobs[j].k].height
              = downloads'[Len(downloads')].height]_vars

\* Pages 2 and 1 stand in images in that order, both are selected, and the
\* long image saved has page 1 on top and page 2, the wider, below it.
C22_Witness ==
  /\ Len(images) = 2
  /\ images[1].id = 2
  /\ \E n \in LongImages :
       /\ Len(downloads[n].drawn) = 2
       /\ downloads[n].drawn[1] = [id |-> 1, x2 |-> images[1].width - images[2].width, y |-> 0]
       /\ downloads[n].drawn[2] = [id |-> 2, x2 |-> 0, y |-> images[2].height]

\* The PDF documents saved so far.
PdfDocuments == { n \in 1..Len(downloads) : downloads[n].kind = "PDF" }

\* The selected present page with the j-th smallest id.
PageOfRank(j) ==
  CHOOSE p \in PresentSelected :
    Cardinality({ q \in PresentSelected : q.id < p.id }) = j - 1

\* C23: the document downloadPDF saves has one page per selected present
\* page, in ascending id order whatever the order of images; its j-th page
\* has the width and height of the j-th selected page and shows that page,
\* and is landscape exactly when the page is wider than high.
C23_PdfPagePerSelectedPage ==
  \A n \in PdfDocuments :
    LET pages == downloads[n].pages
    IN  /\ Len(pages) = Cardinality(PresentSelected)
        /\ \A j \in 1..Len(pages) :
             LET p == PageOfRank(j)
             IN  /\ pages[j].format = << p.width, p.height >>
                 /\ (pages[j].orientation = "l") <=> (p.width > p.height)
                 /\ pages[j].orientation \in {"l", "p"}
                 /\ pages[j].image.data = p.data

\* Pages 2 and 1 stand in images in that order, both are selected, and the
\* document saved has page 1, portrait, then page 2, landscape.
C23_Witness ==
  /\ Len(images) = 2
  /\ images[1].id = 2
  /\ \E n \in PdfDocuments :
       /\ Len(downloads[n].pages) = 2
       /\ downloads[n].pages[1].orientation = "p"
       /\ downloads[n].pages[1].format = << images[2].width, images[2].height >>
       /\ downloads[n].pages[2].orientation = "l"
       /\ downloads[n].pages[2].format = << images[1].width, images[1].height >>

\* The archives saved so far.
ZipArchives == { n \in 1..Len(downloads) : downloads[n].kind = "ZIP" }

\* C24: the archive downloadZip saves has exactly one entry per selected
\* present page, named Page_<id>.jpg after the page's id and holding its
\* data; the names are pairwise distinct and no entry is of another page.
C24_ZipEntryPerSelectedPage ==
  \A n \in ZipArchives :
    LET entries == downloads[n].entries
    IN  /\ Len(entries) = Cardinality(PresentSelected)
        /\ \A k, m \in 1..Len(entries) :
             k # m => entries[k].name # entries[m].name
        /\ { entries[k] : k \in 1..Len(entries) } =
             { [ name |-> << "Page_", p.id, ".jpg" >>, data |-> p.data ] :
                 p \in PresentSelected }

(***************************************************************************)
(* Claims about a pass whose open fails, under SpecAuth.                    *)
(***************************************************************************)

\* The open of pass t settles in this step, and it fails.
OpenFails(t) ==
  /\ tasks[t].pc = "open"
  /\ OpenOutcome(tasks[t].file, tasks[t].password) # "opened"
  /\ OpenSettled(t)

\* C25: a pass whose open fails produces no page: the failure leaves images
\* and selectedIds as they were, and after the failed open of an initial
\* load images is empty.
C25_FailedOpenProducesNoPage ==
  [][\A t \in TaskIds :
       OpenFails(t) =>
         /\ images' = images
         /\ selectedIds' = selectedIds
         /\ ~tasks[t].isReParsing => images' = << >>]_vars

\* C26: the authentication state is one of Locked, AuthRequired/Rejected
\* and Unlocked: isUnlocked is never true together with showPasswordPrompt
\* or isPasswordError, and when the open of an unlocked source fails on the
\* password the source is no longer unlocked.
C26_OneAuthenticationState ==
  /\ [](isUnlocked => ~showPasswordPrompt /\ ~isPasswordError)
  /\ [][\A t \in TaskIds :
          (isUnlocked /\ tasks[t].pc = "open"
             /\ OpenOutcome(tasks[t].file, tasks[t].password) = "PasswordException"
             /\ OpenSettled(t)) => ~isUnlocked']_vars

(***************************************************************************)
(* Claims about progress, under Spec.                                       *)
(***************************************************************************)

\* C27: when page i of a pass is rendered progress.current becomes i and
\* progress.total is the page count of the pass's source; and in every
\* state, whatever the user did while a pass was in flight,
\* progress.current <= progress.total.
C27_ProgressWithinTotal ==
  /\ [](progress.current <= progress.total)
  /\ [][\A t \in TaskIds :
          (tasks[t].pc = "page" /\ PageSettled(t, "rendered")) =>
            /\ progress'.current = tasks[t].i
            /\ progress'.total = tasks[t].totalPages]_vars

(***************************************************************************)
(* Claims about the canvases of a pass, under SpecSurface.                  *)
(***************************************************************************)

\* The passes whose canvas is sized to a page and not yet shrunk: the ones
\* awaiting a render.
SurfacesAllocated == { t \in TaskIds : tasks[t].pc = "render" }

\* C28: at any time at most one canvas holds the pixels of a page.
C28_OneSurfaceAtATime == Cardinality(SurfacesAllocated) <= 1

(***************************************************************************)
(* Claims about termination.                                                *)
(***************************************************************************)

\* C29: every export that starts eventually finishes and isExporting is
\* false again, whether it succeeds, a collaborator throws or a page's
\* image fails to decode.  (Under SpecExportLive.)
C29_ExportTerminates ==
  /\ \A j \in 1..MaxJobs : (jobs[j].pc # "idle") ~> (jobs[j].pc = "idle")
  /\ isExporting ~> ~isExporting

\* C30: every invocation of processFile comes to its end, and the step that
\* ends it, on success, on a password failure and on a decode or render
\* error alike, sets isProcessing to false.  (Under SpecAuthLive.)
C30_PassTerminates ==
  /\ \A t \in 1..MaxTasks : (tasks[t].pc # "idle") ~> (tasks[t].pc = "idle")
  /\ [][\A t \in TaskIds :
          (tasks[t].pc # "idle" /\ tasks'[t].pc = "idle") => ~isProcessing']_vars

\* A pass opened the protected file, which only a re-parse with the right
\* password does after the initial load failed on the password, and a pass
\* ended on a render error; no pass is in flight and isProcessing is false.
C30_Witness ==
  /\ pdfFile = DocLocked
  /\ isUnlocked
  /\ errorMsg = "RenderingError"
  /\ \A t \in TaskIds : ~InFlight(t)
  /\ ~isProcessing

(***************************************************************************)
(* Claims about the selection, under Spec.                                  *)
(***************************************************************************)

\* C31: toggleSelectAll clears the selection only when every page of images
\* is selected already; in every other state it sets selectedIds to exactly
\* the ids of the pages of images.
C31_SelectAllUnlessAllSelected ==
  [][ToggleSelectAll =>
       /\ (selectedIds' = {} /\ ImageIds(images) # {}) =>
            ImageIds(images) \subseteq selectedIds
       /\ ~(ImageIds(images) \subseteq selectedIds) =>
            selectedIds' = ImageIds(images)]_vars

\* Pass t renders its last page in this step, having rendered every page
\* before it.
PassSucceeds(t) ==
  /\ tasks[t].pc = "page"
  /\ tasks[t].i = tasks[t].totalPages
  /\ Len(tasks[t].newImagesList) = tasks[t].totalPages - 1
  /\ PageSettled(t, "rendered")

\* C32: when a pass that started with no pages shown (an initial load, or
\* the re-parse that first unlocks a protected source) completes with every
\* page rendered and the user selected nothing meanwhile, every page of
\* images is selected: selectedIds is the set of their ids.  (Under
\* SpecAuth, which has no selection action.)
C32_AllSelectedAfterFirstPass ==
  [][\A t \in TaskIds :
       ((tasks[t].isReParsing => images = << >>) /\ PassSucceeds(t)) =>
         selectedIds' = ImageIds(images')]_vars

====
